---- MODULE Spec2Model ----
(***************************************************************************)
(* A model of the mssp-ot-rss pipeline:                                    *)
(*   Scraper/scraper.py     get_episode_links, extract_audio_urls,         *)
(*                          crawl_episodes, main                           *)
(*   Scraper/csv_to_rss.py  parse_date, csv_to_rss                         *)
(*                                                                         *)
(* Python strings are sequences of one-character strings, so that          *)
(* str.startswith, str.strip and urljoin are computed character by         *)
(* character.  Four specifications share the variables; each one drives    *)
(* one part of the pipeline and leaves the rest idle:                      *)
(*   SpecLinks    get_episode_links on bounded index markup                *)
(*   SpecExtract  extract_audio_urls on bounded episode pages              *)
(*   SpecCrawl    main, on both of its harvest paths                       *)
(*   SpecFeed     csv_to_rss on bounded CSV files                          *)
(***************************************************************************)
EXTENDS Integers, Sequences, FiniteSets, TLC

VARIABLES
    \* ---- get_episode_links applied to one index document
    lk_index,       \* the parsed index markup
    lk_links,       \* [done, links]: the returned list
    \* ---- extract_audio_urls applied to one page
    ex_page,        \* the parsed page markup
    ex_result,      \* [done, rec]: the returned record (or None)
    \* ---- main / crawl_episodes
    localFile,      \* os.path.exists("The Old Testament.html")
    index_html,     \* markup of the index (on disk and on the network alike)
    indexOutcome,   \* what session.get(start_url) + raise_for_status does
    pageResp,       \* per episode URL: what session.get + raise_for_status does
    pc,             \* control point of main / crawl_episodes
    episode_links,  \* the list get_episode_links returned
    idx,            \* loop position in episode_links (1-based, as enumerate(.., 1))
    visited,        \* crawl_episodes' visited set
    episodes,       \* the accumulator of the running loop
    trace,          \* the calls made so far: session.get and time.sleep
    ret,            \* [returned, value]: what crawl_episodes returned to main
    csvOut,         \* [written, rows]: what save_to_csv wrote
    runs,           \* outcome of each finished run of main, per harvest path
    \* ---- csv_to_rss
    csvFile,        \* episodes.csv: [header, rows], a row a sequence of cells
    now,            \* datetime.now(), as a tick counter
    fpc,            \* control point of csv_to_rss
    fEpisodes,      \* the list `episodes` of csv_to_rss
    fIdx,           \* loop position (1-based, as enumerate(.., 1))
    items,          \* the <item> elements built so far
    feed            \* [written, items]: the document written to rss_path

linkVars  == <<lk_index, lk_links>>
exVars    == <<ex_page, ex_result>>
crawlVars == <<localFile, index_html, indexOutcome, pageResp, pc, episode_links,
               idx, visited, episodes, trace, ret, csvOut, runs>>
feedVars  == <<csvFile, now, fpc, fEpisodes, fIdx, items, feed>>
vars      == <<linkVars, exVars, crawlVars, feedVars>>

(***************************************************************************)
(* Strings                                                                 *)
(***************************************************************************)
Range(s) == {s[k] : k \in 1..Len(s)}

\* Sequences over S of length at most n.
SeqsUpTo(S, n) == UNION {[1..k -> S] : k \in 0..n}

\* str.startswith(prefix)
StartsWith(s, p) ==
    Len(s) >= Len(p) /\ SubSeq(s, 1, Len(p)) = p

\* str.startswith((p1, p2, ...)): any of a tuple of prefixes
StartsWithAny(s, ps) == \E p \in ps : StartsWith(s, p)

\* Position of the first character of s that is in cs, or 0 (str.find).
RECURSIVE FindFrom(_, _, _)
FindFrom(s, cs, k) ==
    IF k > Len(s) THEN 0
    ELSE IF s[k] \in cs THEN k
    ELSE FindFrom(s, cs, k + 1)

Find(s, cs) == FindFrom(s, cs, 1)

\* Position of the last character of s that is in cs, or 0 (str.rfind).
RECURSIVE RFindFrom(_, _, _)
RFindFrom(s, cs, k) ==
    IF k < 1 THEN 0
    ELSE IF s[k] \in cs THEN k
    ELSE RFindFrom(s, cs, k - 1)

RFind(s, cs) == RFindFrom(s, cs, Len(s))

\* str.lstrip(chars), str.rstrip(chars), str.strip(chars)
RECURSIVE LStrip(_, _)
LStrip(s, cs) ==
    IF s # <<>> /\ Head(s) \in cs THEN LStrip(Tail(s), cs) ELSE s

RECURSIVE RStrip(_, _)
RStrip(s, cs) ==
    IF s # <<>> /\ s[Len(s)] \in cs THEN RStrip(SubSeq(s, 1, Len(s) - 1), cs) ELSE s

Strip(s, cs) == RStrip(LStrip(s, cs), cs)

\* The characters str.strip() without arguments removes (those the model uses).
Whitespace == {" "}

(***************************************************************************)
(* URLs: urllib.parse.urljoin as the scraper calls it                      *)
(***************************************************************************)
c_http  == <<"h","t","t","p">>
c_https == <<"h","t","t","p","s">>
c_host  == <<"m","s","s","p","o","l","d","t",".","c","o","m">>
c_sep   == <<":","/","/">>

\* BASE_URL = "https://msspoldt.com"
BASE_URL == c_https \o c_sep \o c_host

Letters ==
    {"a","b","c","d","e","f","g","h","i","j","k","l","m",
     "n","o","p","q","r","s","t","u","v","w","x","y","z"}
Digits == {"0","1","2","3","4","5","6","7","8","9"}

\* urllib.parse.scheme_chars (the model's strings hold no upper-case letters,
\* so the .lower() urlsplit applies to the scheme changes nothing)
SchemeChars == Letters \cup Digits \cup {"+", "-", "."}

\* urllib.parse.uses_relative / uses_netloc: the schemes urljoin resolves
\* against a base (the entries that can occur here: '', http, https, ftp)
UsesRelative == {<<>>, c_http, c_https, <<"f","t","p">>}
UsesNetloc   == UsesRelative

\* urlsplit(url, scheme=default): [scheme, netloc, path, fragment], computed
\* left to right as urlsplit does.  Queries and parameters do not occur in
\* the model's URLs.
SplitFragmentAt(scheme, netloc, tail, hash) ==
    [scheme   |-> scheme,
     netloc   |-> netloc,
     path     |-> IF hash = 0 THEN tail ELSE SubSeq(tail, 1, hash - 1),
     fragment |-> IF hash = 0 THEN <<>> ELSE SubSeq(tail, hash + 1, Len(tail))]

SplitFragment(scheme, netloc, tail) ==
    SplitFragmentAt(scheme, netloc, tail, Find(tail, {"#"}))

\* The authority ends at the first of "/", "?", "#".
SplitAuthorityAt(scheme, after, stop) ==
    IF stop = 0 THEN SplitFragment(scheme, after, <<>>)
    ELSE SplitFragment(scheme, SubSeq(after, 1, stop - 1), SubSeq(after, stop, Len(after)))

SplitNetloc(scheme, rest) ==
    IF StartsWith(rest, <<"/", "/">>)
    THEN SplitAuthorityAt(scheme, SubSeq(rest, 3, Len(rest)),
                          Find(SubSeq(rest, 3, Len(rest)), {"/", "?", "#"}))
    ELSE SplitFragment(scheme, <<>>, rest)

\* A scheme is what precedes the first ":", when it starts with a letter
\* and holds scheme characters only.
SplitSchemeAt(url, default, colon) ==
    IF /\ colon > 1
       /\ url[1] \in Letters
       /\ \A k \in 1..(colon - 1) : url[k] \in SchemeChars
    THEN SplitNetloc(SubSeq(url, 1, colon - 1), SubSeq(url, colon + 1, Len(url)))
    ELSE SplitNetloc(default, url)

UrlSplit(url, default) == SplitSchemeAt(url, default, Find(url, {":"}))

\* urlunparse for the four components kept
UrlUnsplitPath(scheme, netloc, p1, fragment) ==
    (IF scheme # <<>> THEN scheme \o <<":">> ELSE <<>>)
    \o (IF netloc # <<>> \/ (scheme \in UsesNetloc /\ scheme # <<>>
                              /\ ~StartsWith(p1, <<"/", "/">>))
        THEN <<"/", "/">> \o netloc ELSE <<>>)
    \o p1
    \o (IF fragment # <<>> THEN <<"#">> \o fragment ELSE <<>>)

UrlUnsplit(scheme, netloc, path, fragment) ==
    UrlUnsplitPath(scheme, netloc,
                   IF netloc # <<>> /\ path # <<>> /\ path[1] # "/"
                   THEN <<"/">> \o path ELSE path,
                   fragment)

\* The directory part of a base path that a relative reference is merged
\* with: everything up to the last "/" ("/" for an empty base path).
\* Dot segments ("." and "..") do not occur in the model's URLs.
MergeDirAt(bpath, slash) ==
    IF slash = 0 THEN <<"/">> ELSE SubSeq(bpath, 1, slash)

MergeDir(bpath) == MergeDirAt(bpath, RFind(bpath, {"/"}))

\* urljoin, once base and url are split (b, u)
JoinSplit(url, b, u) ==
    IF u.scheme # b.scheme \/ u.scheme \notin UsesRelative THEN url
    ELSE IF u.scheme \in UsesNetloc /\ u.netloc # <<>>
         THEN UrlUnsplit(u.scheme, u.netloc, u.path, u.fragment)
    ELSE IF u.path = <<>>
         THEN UrlUnsplit(u.scheme, b.netloc, b.path, u.fragment)
    ELSE IF u.path[1] = "/"
         THEN UrlUnsplit(u.scheme, b.netloc, u.path, u.fragment)
    ELSE UrlUnsplit(u.scheme, b.netloc, MergeDir(b.path) \o u.path, u.fragment)

JoinBase(url, b) == JoinSplit(url, b, UrlSplit(url, b.scheme))

\* urljoin(base, url)
urljoin(base, url) ==
    IF base = <<>> THEN url
    ELSE IF url = <<>> THEN base
    ELSE JoinBase(url, UrlSplit(base, <<>>))

SchemeAndHost(u) == <<u.scheme, u.netloc>>

\* The origin of a URL: its scheme and host (urlparse(url)[:2]).
Origin(url) == SchemeAndHost(UrlSplit(url, <<>>))

(***************************************************************************)
(* Index markup, as BeautifulSoup presents it to get_episode_links         *)
(*                                                                         *)
(*   table      <table id="artTable">: present or not, and its rows; a row *)
(*              is the sequence of its <td> cells, a cell is the first     *)
(*              <a href> in it, if any                                     *)
(*   anchors    the <a class="episode"> elements, each with or without an  *)
(*              href attribute                                             *)
(*   divEpisodes, main                                                     *)
(*              <div class="episodes"> and <main>: present or not, and the *)
(*              href values of the <a href> elements inside                *)
(***************************************************************************)
NoLink      == [hasLink |-> FALSE, href |-> <<>>]
CellLink(h) == [hasLink |-> TRUE, href |-> h]
NoHref      == [hasHref |-> FALSE, href |-> <<>>]
WithHref(h) == [hasHref |-> TRUE, href |-> h]
Absent      == [present |-> FALSE, hrefs |-> <<>>]
Holding(hs) == [present |-> TRUE, hrefs |-> hs]
NoTable     == [present |-> FALSE, rows |-> <<>>]
Table(rs)   == [present |-> TRUE, rows |-> rs]

\* Lines 114-120: the rows after the header row; the second cell's link.
RECURSIVE TableLinks(_, _, _)
TableLinks(rows, k, base_url) ==
    IF k > Len(rows) THEN <<>>
    ELSE (IF Len(rows[k]) >= 2 /\ rows[k][2].hasLink
          THEN <<urljoin(base_url, rows[k][2].href)>>
          ELSE <<>>)
         \o TableLinks(rows, k + 1, base_url)

\* Lines 124-127: every a.episode whose href is present and not empty.
RECURSIVE MarkedLinks(_, _)
MarkedLinks(anchors, base_url) ==
    IF anchors = <<>> THEN <<>>
    ELSE (IF Head(anchors).hasHref /\ Head(anchors).href # <<>>
          THEN <<urljoin(base_url, Head(anchors).href)>>
          ELSE <<>>)
         \o MarkedLinks(Tail(anchors), base_url)

\* Line 136: the test that makes option 3 skip an href.
\*   href.startswith(("#", "http")) and not href.startswith(base_url)
Filtered(href, base_url) ==
    /\ StartsWithAny(href, {<<"#">>, c_http})
    /\ ~StartsWith(href, base_url)

\* Lines 133-138: every <a href> of the container that the filter keeps.
RECURSIVE ContainerLinks(_, _)
ContainerLinks(hrefs, base_url) ==
    IF hrefs = <<>> THEN <<>>
    ELSE (IF Filtered(Head(hrefs), base_url)
          THEN <<>>
          ELSE <<urljoin(base_url, Head(hrefs))>>)
         \o ContainerLinks(Tail(hrefs), base_url)

\* Line 131: soup.find("div", class_="episodes") or soup.find("main").
\* A found Tag is truthy even when it is empty.
Container(index) ==
    IF index.divEpisodes.present THEN index.divEpisodes ELSE index.main

\* Lines 130-138: option 3 runs only when the list is still empty.
Option3(index, base_url, links) ==
    IF links = <<>> /\ Container(index).present
    THEN ContainerLinks(Container(index).hrefs, base_url)
    ELSE links

\* Lines 123-127: option 2 runs only when option 1 found nothing.
Option2(index, base_url, links) ==
    Option3(index, base_url,
            IF links = <<>> THEN MarkedLinks(index.anchors, base_url) ELSE links)

\* get_episode_links(index_html, base_url), lines 102-140
get_episode_links(index, base_url) ==
    Option2(index, base_url,
            IF index.table.present
            THEN TableLinks(index.table.rows, 2, base_url)
            ELSE <<>>)

\* Whether a call falls through to the third heuristic and finds a container.
UsesOption3(index, base_url) ==
    /\ ~index.table.present \/ TableLinks(index.table.rows, 2, base_url) = <<>>
    /\ MarkedLinks(index.anchors, base_url) = <<>>
    /\ Container(index).present

(***************************************************************************)
(* Bounded index documents                                                 *)
(***************************************************************************)
h_ep1       == <<"e","p","1">>
h_ep1_root  == <<"/","e","p","1">>
h_ep2       == <<"e","p","2">>
h_anchor    == <<"#","t","o","p">>
h_same      == BASE_URL \o <<"/","e","p","2">>
h_other     == c_https \o c_sep \o <<"e",".","i","o","/","x">>
h_lookalike == BASE_URL \o <<".","e",".","i","o","/","x">>
h_protorel  == <<"/","/","e",".","i","o","/","x">>
h_mailto    == <<"m","a","i","l","t","o",":","a">>
h_empty     == <<>>

\* One href of every form a container can hold.
HrefForms ==
    {h_ep1, h_ep1_root, h_anchor, h_same, h_other, h_lookalike,
     h_protorel, h_mailto, h_empty}

\* The most <a href> elements in a container.
MaxHrefs == 2

HeaderRow == <<NoLink, NoLink>>

LinkTables ==
    {NoTable,
     Table(<<HeaderRow>>),
     Table(<<HeaderRow, <<CellLink(h_ep2)>>>>),
     Table(<<HeaderRow, <<CellLink(h_ep2), NoLink>>>>),
     Table(<<HeaderRow, <<NoLink, CellLink(h_ep1)>>, <<NoLink, CellLink(h_ep1_root)>>>>)}

LinkAnchors ==
    {<<>>, <<NoHref>>, <<WithHref(h_empty)>>, <<NoHref, WithHref(h_ep2)>>}

LinkDivs  == {Absent} \cup {Holding(hs) : hs \in SeqsUpTo(HrefForms, MaxHrefs)}

LinkMains == {Absent, Holding(<<h_ep1>>), Holding(<<h_anchor, h_other>>)}

IndexDocs ==
    [table : LinkTables, anchors : LinkAnchors, divEpisodes : LinkDivs, main : LinkMains]

IdleIndex == [table |-> NoTable, anchors |-> <<>>, divEpisodes |-> Absent, main |-> Absent]

(***************************************************************************)
(* Episode page markup, as BeautifulSoup presents it to extract_audio_urls *)
(*                                                                         *)
(* A page is the sequence of its elements in document order.  An element   *)
(* has a tag name, a class attribute, its text, and the attributes the     *)
(* extractor reads: controls, src, datetime.                               *)
(***************************************************************************)
None_   == [some |-> FALSE, v |-> <<>>]
Some(x) == [some |-> TRUE, v |-> x]

\* Python truthiness of an optional string: neither None nor "".
Truthy(o) == o.some /\ o.v # <<>>

\* a or b
OrElse(a, b) == IF Truthy(a) THEN a ELSE b

Elem(name, class, text) ==
    [name |-> name, class |-> class, text |-> text,
     controls |-> FALSE, src |-> None_, datetime |-> None_]

NoTag == [found |-> FALSE, tag |-> Elem("", "", <<>>)]
Tag(e) == [found |-> TRUE, tag |-> e]

\* soup.find(name): the first element whose TAG NAME is `name`.  The string
\* is not read as a CSS selector: ".episode-title" names no tag.
RECURSIVE find(_, _)
find(page, name) ==
    IF page = <<>> THEN NoTag
    ELSE IF Head(page).name = name THEN Tag(Head(page))
    ELSE find(Tail(page), name)

\* soup.find("audio", {"controls": True}): the first <audio> carrying a
\* controls attribute.
RECURSIVE findAudio(_)
findAudio(page) ==
    IF page = <<>> THEN NoTag
    ELSE IF Head(page).name = "audio" /\ Head(page).controls THEN Tag(Head(page))
    ELSE findAudio(Tail(page))

\* tag.get_text(strip=True)
get_text(tag) == Strip(tag.text, Whitespace)

\* Lines 80-84 and 88-92: the first selector that finds a tag decides, and
\* the loop breaks there whatever the tag's text is.
RECURSIVE FirstTag(_, _)
FirstTag(page, selectors) ==
    IF selectors = <<>> THEN NoTag
    ELSE IF find(page, Head(selectors)).found THEN find(page, Head(selectors))
    ELSE FirstTag(page, Tail(selectors))

TitleSelectors == <<"h1", "title", ".episode-title">>
DateSelectors  == <<".episode-date", "time", ".date">>

s_Unknown == <<"U","n","k","n","o","w","n">>

NoRecord ==
    [some |-> FALSE, audio_url |-> <<>>, title |-> <<>>, date |-> <<>>, page_url |-> <<>>]

\* Lines 79-84: title = tag.get_text(strip=True) of the first tag found
TitleOf(ttag) == IF ttag.found THEN Some(get_text(ttag.tag)) ELSE None_

\* Lines 87-92: date = tag.get_text(strip=True) or tag.get("datetime")
DateOf(dtag) ==
    IF dtag.found THEN OrElse(Some(get_text(dtag.tag)), dtag.tag.datetime) ELSE None_

\* Lines 73-99: the record, once a playable audio tag with a src is found
BuildRecord(page, page_url, audio_tag) ==
    [some      |-> TRUE,
     audio_url |-> urljoin(page_url, audio_tag.src.v),
     title     |-> OrElse(TitleOf(FirstTag(page, TitleSelectors)), Some(s_Unknown)).v,
     date      |-> OrElse(DateOf(FirstTag(page, DateSelectors)), Some(s_Unknown)).v,
     page_url  |-> page_url]

\* Lines 69-71: no audio tag with controls, or no src on it: None
ExtractFrom(page, page_url, audio_tag) ==
    IF ~audio_tag.found \/ ~Truthy(audio_tag.tag.src) THEN NoRecord
    ELSE BuildRecord(page, page_url, audio_tag.tag)

\* extract_audio_urls(html_content, page_url), lines 55-99
extract_audio_urls(page, page_url) == ExtractFrom(page, page_url, findAudio(page))

(***************************************************************************)
(* Bounded episode pages                                                   *)
(***************************************************************************)
s_mp3 == <<"a",".","m","p","3">>

e_audio       == [Elem("audio", "", <<>>) EXCEPT !.controls = TRUE, !.src = Some(s_mp3)]
e_audioPlain  == [Elem("audio", "", <<>>) EXCEPT !.src = Some(s_mp3)]
e_audioNoSrc  == [Elem("audio", "", <<>>) EXCEPT !.controls = TRUE]
e_h1          == Elem("h1", "", <<" ","H"," ">>)
e_h1Empty     == Elem("h1", "", <<>>)
e_title       == Elem("title", "", <<"T">>)
e_titleBlank  == Elem("title", "", <<" ">>)
e_epTitle     == Elem("div", "episode-title", <<"E">>)
e_time        == Elem("time", "", <<"N">>)
e_timeAttr    == [Elem("time", "", <<>>) EXCEPT !.datetime = Some(<<"D">>)]
e_epDate      == Elem("span", "episode-date", <<"X">>)

PageElems ==
    {e_audio, e_audioPlain, e_audioNoSrc, e_h1, e_h1Empty, e_title,
     e_titleBlank, e_epTitle, e_time, e_timeAttr, e_epDate}

\* The most elements on a page besides the audio player.
MaxElems == 3

\* Bounded pages: any elements, with or without a playable audio at the end.
Pages ==
    {p \o tl : p \in SeqsUpTo(PageElems, MaxElems), tl \in {<<>>, <<e_audio>>}}

\* The URL a page of the extractor's specification was fetched from.
u_ep1 == BASE_URL \o <<"/","e","p","1">>
u_ep2 == BASE_URL \o <<"/","e","p","2">>

(***************************************************************************)
(* main and crawl_episodes                                                 *)
(***************************************************************************)
\* What the network collaborator does for one URL: the response passes
\* raise_for_status ("ok", with the page it carries), raise_for_status
\* raises on a non-2xx status ("http_error"), or session.get itself raises
\* ("transport_error": connection failure, timeout).  All errors are
\* requests.RequestException.
Ok(page)       == [kind |-> "ok", page |-> page]
HttpError      == [kind |-> "http_error", page |-> <<>>]
TransportError == [kind |-> "transport_error", page |-> <<>>]

\* Recorded calls.
GetIndex   == [call |-> "get_index", url |-> <<>>]
GetPage(u) == [call |-> "get", url |-> u]
Sleep      == [call |-> "sleep", url |-> <<>>]

NotReturned == [returned |-> FALSE, raised |-> FALSE, value |-> <<>>]
\* `return episodes`: a normal return; crawl_episodes lets no exception out.
Returned(v) == [returned |-> TRUE, raised |-> FALSE, value |-> v]

NotWritten == [written |-> FALSE, rows |-> <<>>]
NoRun      == [done |-> FALSE, trace |-> <<>>, episodes |-> <<>>]
Path       == IF localFile THEN "local" ELSE "net"

\* A crawl that forgets to mark what it fetches.
MarkVisited_Forgotten(v, u) == v

\* Line 184: visited.add(episode_url)
MarkVisited(v, u) == v \cup {u}

\* An accumulator that puts the newest record first.
Accumulate_Prepended(eps, r) == <<r>> \o eps

\* Lines 198 and 269: episodes.append(episode_data)
Accumulate(eps, r) == Append(eps, r)

\* Lines 195-201 (and 267-272): a record, if there is one, is appended.
Extracted(eps, episode_data) ==
    IF episode_data.some THEN Accumulate(eps, episode_data) ELSE eps

\* Lines 187-201 (and their copy, lines 259-272): fetch one page, sleep
\* only after a response that passed raise_for_status, extract, and append
\* a record if there is one.  An error skips the rest of the iteration.
FetchPage(eps, u) ==
    IF pageResp[u].kind = "ok"
    THEN [calls    |-> <<GetPage(u), Sleep>>,
          episodes |-> Extracted(eps, extract_audio_urls(pageResp[u].page, u))]
    ELSE [calls |-> <<GetPage(u)>>, episodes |-> eps]

\* main, lines 242-253: the local index file exists; read it and discover.
MainLocal ==
    /\ pc = "main"
    /\ localFile
    /\ episode_links' = get_episode_links(index_html, BASE_URL)
    /\ episodes' = <<>>
    /\ idx' = 1
    /\ pc' = "local_loop"
    /\ UNCHANGED <<localFile, index_html, indexOutcome, pageResp, visited,
                   trace, ret, csvOut, runs>>
    /\ UNCHANGED <<linkVars, exVars, feedVars>>

\* main, line 275, entering crawl_episodes, lines 160-165.
MainCrawl ==
    /\ pc = "main"
    /\ ~localFile
    /\ visited' = {}
    /\ episodes' = <<>>
    /\ pc' = "fetch_index"
    /\ UNCHANGED <<localFile, index_html, indexOutcome, pageResp, episode_links,
                   idx, trace, ret, csvOut, runs>>
    /\ UNCHANGED <<linkVars, exVars, feedVars>>

\* crawl_episodes, lines 167-176: fetch the index; on an error return the
\* (empty) list, else discover the links.
FetchIndex ==
    /\ pc = "fetch_index"
    /\ trace' = Append(trace, GetIndex)
    /\ IF indexOutcome = "ok"
       THEN /\ episode_links' = get_episode_links(index_html, BASE_URL)
            /\ idx' = 1
            /\ pc' = "crawl_loop"
            /\ ret' = ret
       ELSE /\ ret' = Returned(episodes)
            /\ pc' = "report"
            /\ UNCHANGED <<episode_links, idx>>
    /\ UNCHANGED <<localFile, index_html, indexOutcome, pageResp, visited,
                   episodes, csvOut, runs>>
    /\ UNCHANGED <<linkVars, exVars, feedVars>>

\* crawl_episodes, lines 179-201: one iteration of the loop.
CrawlStep ==
    /\ pc = "crawl_loop"
    /\ idx <= Len(episode_links)
    /\ IF episode_links[idx] \in visited
       THEN UNCHANGED <<visited, trace, episodes>>
       ELSE /\ visited' = MarkVisited(visited, episode_links[idx])
            /\ trace' = trace \o FetchPage(episodes, episode_links[idx]).calls
            /\ episodes' = FetchPage(episodes, episode_links[idx]).episodes
    /\ idx' = idx + 1
    /\ UNCHANGED <<localFile, index_html, indexOutcome, pageResp, pc,
                   episode_links, ret, csvOut, runs>>
    /\ UNCHANGED <<linkVars, exVars, feedVars>>

\* crawl_episodes, line 203: return episodes.
CrawlReturn ==
    /\ pc = "crawl_loop"
    /\ idx > Len(episode_links)
    /\ ret' = Returned(episodes)
    /\ pc' = "report"
    /\ UNCHANGED <<localFile, index_html, indexOutcome, pageResp, episode_links,
                   idx, visited, episodes, trace, csvOut, runs>>
    /\ UNCHANGED <<linkVars, exVars, feedVars>>

\* main, lines 257-272: one iteration of the local path's own loop.
LocalStep ==
    /\ pc = "local_loop"
    /\ idx <= Len(episode_links)
    /\ trace' = trace \o FetchPage(episodes, episode_links[idx]).calls
    /\ episodes' = FetchPage(episodes, episode_links[idx]).episodes
    /\ idx' = idx + 1
    /\ UNCHANGED <<localFile, index_html, indexOutcome, pageResp, pc,
                   episode_links, visited, ret, csvOut, runs>>
    /\ UNCHANGED <<linkVars, exVars, feedVars>>

\* main: the local loop is exhausted.
LocalDone ==
    /\ pc = "local_loop"
    /\ idx > Len(episode_links)
    /\ pc' = "report"
    /\ UNCHANGED <<localFile, index_html, indexOutcome, pageResp, episode_links,
                   idx, visited, episodes, trace, ret, csvOut, runs>>
    /\ UNCHANGED <<linkVars, exVars, feedVars>>

\* main's `episodes`: its own list on the local path, else the returned one.
MainEpisodes == IF localFile THEN episodes ELSE ret.value

\* save_to_csv, lines 207-220: nothing is written for an empty list.
save_to_csv(eps, out) ==
    IF eps = <<>> THEN out ELSE [written |-> TRUE, rows |-> eps]

\* main, lines 277-291: save when there are episodes, else report none.
Report ==
    /\ pc = "report"
    /\ csvOut' = IF MainEpisodes # <<>> THEN save_to_csv(MainEpisodes, csvOut) ELSE csvOut
    /\ runs' = [runs EXCEPT ![Path] =
                   [done |-> TRUE, trace |-> trace, episodes |-> MainEpisodes]]
    /\ pc' = "done"
    /\ UNCHANGED <<localFile, index_html, indexOutcome, pageResp, episode_links,
                   idx, visited, episodes, trace, ret>>
    /\ UNCHANGED <<linkVars, exVars, feedVars>>

\* main is started again with the local index file created or removed in
\* between; the site is unchanged.
Rerun ==
    /\ pc = "done"
    /\ ~runs[IF localFile THEN "net" ELSE "local"].done
    /\ localFile' = ~localFile
    /\ pc' = "main"
    /\ episode_links' = <<>>
    /\ idx' = 1
    /\ visited' = {}
    /\ episodes' = <<>>
    /\ trace' = <<>>
    /\ ret' = NotReturned
    /\ UNCHANGED <<index_html, indexOutcome, pageResp, csvOut, runs>>
    /\ UNCHANGED <<linkVars, exVars, feedVars>>

(***************************************************************************)
(* Bounded sites for the crawl                                             *)
(***************************************************************************)
\* The most episode rows in the index table.
MaxLinks == 3

\* "ep1" and "/ep1" are two hrefs of one resolved URL.
CrawlHrefs == {h_ep1, h_ep1_root, h_ep2}
CrawlUrls  == {urljoin(BASE_URL, h) : h \in CrawlHrefs}

CrawlIndexDocs ==
    {[table       |-> Table(<<HeaderRow>> \o [k \in 1..Len(hs) |-> <<NoLink, CellLink(hs[k])>>]),
      anchors     |-> <<>>,
      divEpisodes |-> Absent,
      main        |-> Absent] : hs \in SeqsUpTo(CrawlHrefs, MaxLinks)}

PageWithAudio == <<e_h1, e_audio>>
PageNoAudio   == <<e_h1>>

Responses == {Ok(PageWithAudio), Ok(PageNoAudio), HttpError, TransportError}

IdleLinks == /\ lk_index = IdleIndex
             /\ lk_links = [done |-> FALSE, links |-> <<>>]
IdleExtract == /\ ex_page = <<>>
               /\ ex_result = [done |-> FALSE, rec |-> NoRecord]
IdleCrawl == /\ localFile = FALSE
             /\ index_html = IdleIndex
             /\ indexOutcome = "ok"
             /\ pageResp = <<>>
             /\ pc = "idle"
             /\ episode_links = <<>>
             /\ idx = 1
             /\ visited = {}
             /\ episodes = <<>>
             /\ trace = <<>>
             /\ ret = NotReturned
             /\ csvOut = NotWritten
             /\ runs = [net |-> NoRun, local |-> NoRun]
IdleFeed == /\ csvFile = [header |-> <<>>, rows |-> <<>>]
            /\ now = 0
            /\ fpc = "idle"
            /\ fEpisodes = <<>>
            /\ fIdx = 1
            /\ items = <<>>
            /\ feed = [written |-> FALSE, items |-> <<>>]

InitCrawl ==
    /\ localFile \in BOOLEAN
    /\ index_html \in CrawlIndexDocs
    /\ indexOutcome \in {"ok", "http_error", "transport_error"}
    /\ pageResp \in [CrawlUrls -> Responses]
    /\ pc = "main"
    /\ episode_links = <<>>
    /\ idx = 1
    /\ visited = {}
    /\ episodes = <<>>
    /\ trace = <<>>
    /\ ret = NotReturned
    /\ csvOut = NotWritten
    /\ runs = [net |-> NoRun, local |-> NoRun]
    /\ IdleLinks /\ IdleExtract /\ IdleFeed

NextCrawl ==
    \/ MainLocal
    \/ MainCrawl
    \/ FetchIndex
    \/ CrawlStep
    \/ CrawlReturn
    \/ LocalStep
    \/ LocalDone
    \/ Report
    \/ Rerun

SpecCrawl == InitCrawl /\ [][NextCrawl]_vars

(***************************************************************************)
(* get_episode_links and extract_audio_urls, each applied to one input     *)
(***************************************************************************)
InitLinks ==
    /\ lk_index \in IndexDocs
    /\ lk_links = [done |-> FALSE, links |-> <<>>]
    /\ IdleExtract /\ IdleCrawl /\ IdleFeed

DiscoverLinks ==
    /\ ~lk_links.done
    /\ lk_links' = [done |-> TRUE, links |-> get_episode_links(lk_index, BASE_URL)]
    /\ UNCHANGED <<lk_index, exVars, crawlVars, feedVars>>

NextLinks == DiscoverLinks

SpecLinks == InitLinks /\ [][NextLinks]_vars

InitExtract ==
    /\ ex_page \in Pages
    /\ ex_result = [done |-> FALSE, rec |-> NoRecord]
    /\ IdleLinks /\ IdleCrawl /\ IdleFeed

ExtractPage ==
    /\ ~ex_result.done
    /\ ex_result' = [done |-> TRUE, rec |-> extract_audio_urls(ex_page, u_ep1)]
    /\ UNCHANGED <<ex_page, linkVars, crawlVars, feedVars>>

NextExtract == ExtractPage

SpecExtract == InitExtract /\ [][NextExtract]_vars

(***************************************************************************)
(* csv_to_rss: parse_date                                                  *)
(*                                                                         *)
(* A normalized date is kept as its calendar fields rather than as the     *)
(* RFC 2822 text strftime renders from them; a date taken from             *)
(* datetime.now() is kept as the clock reading.                            *)
(***************************************************************************)
\* calendar.month_name and calendar.month_abbr (the C locale), which
\* strptime matches %B and %b against
MonthNames ==
    <<<<"J","a","n","u","a","r","y">>,
      <<"F","e","b","r","u","a","r","y">>,
      <<"M","a","r","c","h">>,
      <<"A","p","r","i","l">>,
      <<"M","a","y">>,
      <<"J","u","n","e">>,
      <<"J","u","l","y">>,
      <<"A","u","g","u","s","t">>,
      <<"S","e","p","t","e","m","b","e","r">>,
      <<"O","c","t","o","b","e","r">>,
      <<"N","o","v","e","m","b","e","r">>,
      <<"D","e","c","e","m","b","e","r">>>>
MonthAbbrs ==
    <<<<"J","a","n">>,
      <<"F","e","b">>,
      <<"M","a","r">>,
      <<"A","p","r">>,
      <<"M","a","y">>,
      <<"J","u","n">>,
      <<"J","u","l">>,
      <<"A","u","g">>,
      <<"S","e","p">>,
      <<"O","c","t">>,
      <<"N","o","v">>,
      <<"D","e","c">>>>

DigitChars == <<"0","1","2","3","4","5","6","7","8","9">>
DigitVal(c) == (CHOOSE k \in 1..10 : DigitChars[k] = c) - 1

\* str(n), for n >= 0
RECURSIVE IntStr(_)
IntStr(n) ==
    IF n < 10 THEN <<DigitChars[n + 1]>>
    ELSE IntStr(n \div 10) \o <<DigitChars[(n % 10) + 1]>>

IsLeap(y) == (y % 4 = 0 /\ y % 100 # 0) \/ y % 400 = 0
DaysIn(y, m) ==
    IF m = 2 THEN (IF IsLeap(y) THEN 29 ELSE 28)
    ELSE IF m \in {4, 6, 9, 11} THEN 30 ELSE 31

NoMatch == [ok |-> FALSE, y |-> 0, m |-> 0, d |-> 0]

\* The months whose name (from `names`) the string starts with.
MonthsAt(s, names) == {m \in 1..12 : StartsWith(s, names[m])}

\* datetime.strptime(s, fmt), directive by directive.  fmt is the format
\* as a sequence of directives and literal characters; acc collects the
\* fields read so far.  A blank in the format matches one or more blanks;
\* %d takes two digits when they form a day number, else one; %Y takes
\* four digits.  The whole string must be consumed, and the day must exist
\* in the month.
RECURSIVE Strptime(_, _, _)
Strptime(s, fmt, acc) ==
    IF fmt = <<>>
    THEN IF s = <<>> /\ acc.d >= 1 /\ acc.d <= DaysIn(acc.y, acc.m)
         THEN [acc EXCEPT !.ok = TRUE] ELSE NoMatch
    ELSE IF Head(fmt) \in {"%b", "%B"}
    THEN IF MonthsAt(s, IF Head(fmt) = "%b" THEN MonthAbbrs ELSE MonthNames) = {}
         THEN NoMatch
         ELSE Strptime(
                SubSeq(s,
                       Len((IF Head(fmt) = "%b" THEN MonthAbbrs ELSE MonthNames)
                             [CHOOSE m \in MonthsAt(s, IF Head(fmt) = "%b" THEN MonthAbbrs ELSE MonthNames) : TRUE]) + 1,
                       Len(s)),
                Tail(fmt),
                [acc EXCEPT !.m = CHOOSE m \in MonthsAt(s, IF Head(fmt) = "%b" THEN MonthAbbrs ELSE MonthNames) : TRUE])
    ELSE IF Head(fmt) = "%d"
    THEN IF /\ Len(s) >= 2 /\ s[1] \in Digits /\ s[2] \in Digits
            /\ 10 * DigitVal(s[1]) + DigitVal(s[2]) \in 1..31
         THEN Strptime(SubSeq(s, 3, Len(s)), Tail(fmt),
                       [acc EXCEPT !.d = 10 * DigitVal(s[1]) + DigitVal(s[2])])
         ELSE IF Len(s) >= 1 /\ s[1] \in Digits \ {"0"}
         THEN Strptime(Tail(s), Tail(fmt), [acc EXCEPT !.d = DigitVal(s[1])])
         ELSE NoMatch
    ELSE IF Head(fmt) = "%Y"
    THEN IF Len(s) >= 4 /\ \A k \in 1..4 : s[k] \in Digits
         THEN Strptime(SubSeq(s, 5, Len(s)), Tail(fmt),
                       [acc EXCEPT !.y = 1000 * DigitVal(s[1]) + 100 * DigitVal(s[2])
                                         + 10 * DigitVal(s[3]) + DigitVal(s[4])])
         ELSE NoMatch
    ELSE IF Head(fmt) = " "
    THEN IF s # <<>> /\ Head(s) \in Whitespace
         THEN Strptime(LStrip(s, Whitespace), Tail(fmt), acc)
         ELSE NoMatch
    ELSE IF s # <<>> /\ Head(s) = Head(fmt)
         THEN Strptime(Tail(s), Tail(fmt), acc)
         ELSE NoMatch

\* Lines 23-27: "%b. %d, %Y", "%B %d, %Y", "%b %d, %Y"
DateFormats ==
    << <<"%b", ".", " ", "%d", ",", " ", "%Y">>,
       <<"%B", " ", "%d", ",", " ", "%Y">>,
       <<"%b", " ", "%d", ",", " ", "%Y">> >>

Clock(t)   == [clock |-> TRUE, at |-> t, y |-> 0, m |-> 0, d |-> 0]
Parsed(r)  == [clock |-> FALSE, at |-> 0, y |-> r.y, m |-> r.m, d |-> r.d]

\* Lines 29-37: the first format that parses decides; else the current time.
RECURSIVE TryFormats(_, _, _)
TryFormats(s, fmts, t) ==
    IF fmts = <<>> THEN Clock(t)
    ELSE IF Strptime(s, Head(fmts), NoMatch).ok
         THEN Parsed(Strptime(s, Head(fmts), NoMatch))
         ELSE TryFormats(s, Tail(fmts), t)

\* parse_date(date_str), lines 15-37, called at clock reading t.  The
\* argument is an optional string: None is falsy, as "" is.
parse_date(date_str, t) ==
    IF ~Truthy(date_str) \/ date_str.v = s_Unknown THEN Clock(t)
    ELSE TryFormats(date_str.v, DateFormats, t)

(***************************************************************************)
(* csv_to_rss                                                              *)
(***************************************************************************)
\* csv.DictReader on one data row: cell k goes to field k of the header, a
\* field the row has no cell for is None (restval), cells beyond the header
\* are kept under a key the assembler never reads.
DictRow(header, cells) ==
    [f \in Range(header) |->
        IF (CHOOSE k \in 1..Len(header) : header[k] = f) <= Len(cells)
        THEN Some(cells[CHOOSE k \in 1..Len(header) : header[k] = f])
        ELSE None_]

\* Lines 68-72: every row of the reader; DictReader skips rows without cells.
RECURSIVE ReadRows(_, _)
ReadRows(header, rows) ==
    IF rows = <<>> THEN <<>>
    ELSE (IF Head(rows) = <<>> THEN <<>> ELSE <<DictRow(header, Head(rows))>>)
         \o ReadRows(header, Tail(rows))

\* Line 75: episodes.reverse()
RECURSIVE Reverse(_)
Reverse(eps) ==
    IF eps = <<>> THEN <<>> ELSE Reverse(Tail(eps)) \o <<Head(eps)>>

\* dict.get(key, default)
Get(episode, key, default) ==
    IF key \in DOMAIN episode THEN episode[key] ELSE default

\* The characters .strip(' ">') removes
Artifacts == {" ", "\"", ">"}

s_Episode   == <<"E","p","i","s","o","d","e"," ">>
s_audioMpeg == <<"a","u","d","i","o","/","m","p","e","g">>

NoEnclosure == [url |-> <<>>, type |-> <<>>, length |-> <<>>]
NoGuid      == [isPermaLink |-> <<>>, text |-> <<>>]

\* An <item> with title and description only (lines 108-114).
NewItem(title, description) ==
    [title        |-> title,
     description  |-> description,
     hasLink      |-> FALSE, link      |-> <<>>,
     hasEnclosure |-> FALSE, enclosure |-> NoEnclosure,
     hasGuid      |-> FALSE, guid      |-> NoGuid,
     hasPubDate   |-> FALSE, pubDate   |-> Clock(0),
     explicit     |-> <<>>,  duration  |-> <<>>]

Raised(item)   == [raised |-> TRUE, item |-> item]
Finished(item) == [raised |-> FALSE, item |-> item]

\* Lines 131-137: pubDate, itunes:explicit, itunes:duration
WithDate(item, episode, t) ==
    Finished([item EXCEPT
        !.hasPubDate = TRUE,
        !.pubDate    = parse_date(Get(episode, "date", Some(s_Unknown)), t),
        !.explicit   = <<"y","e","s">>,
        !.duration   = <<"0">>])

\* Lines 118-129: link, enclosure and guid.  page_url None: .strip raises.
WithAudio(item, episode, audio_url, t) ==
    IF ~Get(episode, "page_url", Some(audio_url)).some THEN Raised(item)
    ELSE WithDate(
           [item EXCEPT
              !.hasLink      = TRUE,
              !.link         = Strip(Get(episode, "page_url", Some(audio_url)).v, Artifacts),
              !.hasEnclosure = TRUE,
              !.enclosure    = [url |-> audio_url, type |-> s_audioMpeg, length |-> <<"0">>],
              !.hasGuid      = TRUE,
              !.guid         = [isPermaLink |-> <<"f","a","l","s","e">>, text |-> audio_url]],
           episode, t)

\* Lines 116-117: audio_url = episode.get("audio_url", "").strip(' ">');
\* None: .strip raises.
WithAudioUrl(item, episode, t) ==
    IF ~Get(episode, "audio_url", Some(<<>>)).some THEN Raised(item)
    ELSE IF Strip(Get(episode, "audio_url", Some(<<>>)).v, Artifacts) # <<>>
         THEN WithAudio(item, episode,
                        Strip(Get(episode, "audio_url", Some(<<>>)).v, Artifacts), t)
         ELSE WithDate(item, episode, t)

\* Lines 113-114: description = episode.get("description", title);
\* the element's text is `description or title`.
WithTitle(title, episode, t) ==
    WithAudioUrl(NewItem(title, OrElse(Get(episode, "description", Some(title)), Some(title)).v),
                 episode, t)

\* Lines 108-137: one <item>.  title None: .strip raises before anything
\* is set on the item.
BuildItem(episode, k, t) ==
    IF ~Get(episode, "title", Some(s_Episode \o IntStr(k))).some
    THEN Raised(NewItem(<<>>, <<>>))
    ELSE WithTitle(Strip(Get(episode, "title", Some(s_Episode \o IntStr(k))).v, Artifacts),
                   episode, t)

NotWrittenFeed == [written |-> FALSE, items |-> <<>>]

\* Lines 67-104: read the CSV, reverse, create the channel.
ReadCsv ==
    /\ fpc = "start"
    /\ fEpisodes' = Reverse(ReadRows(csvFile.header, csvFile.rows))
    /\ fIdx' = 1
    /\ fpc' = "items"
    /\ UNCHANGED <<csvFile, now, items, feed>>
    /\ UNCHANGED <<linkVars, exVars, crawlVars>>

\* Lines 107-137: one iteration of the item loop.  An exception leaves the
\* function: nothing is written.
AddItem ==
    /\ fpc = "items"
    /\ fIdx <= Len(fEpisodes)
    /\ IF BuildItem(fEpisodes[fIdx], fIdx, now).raised
       THEN /\ fpc' = "raised"
            /\ UNCHANGED <<fIdx, items>>
       ELSE /\ items' = Append(items, BuildItem(fEpisodes[fIdx], fIdx, now).item)
            /\ fIdx' = fIdx + 1
            /\ fpc' = fpc
    /\ now' = now + 1
    /\ UNCHANGED <<csvFile, fEpisodes, feed>>
    /\ UNCHANGED <<linkVars, exVars, crawlVars>>

\* Lines 139-151: serialize and write the document.
WriteFeed ==
    /\ fpc = "items"
    /\ fIdx > Len(fEpisodes)
    /\ feed' = [written |-> TRUE, items |-> items]
    /\ fpc' = "done"
    /\ UNCHANGED <<csvFile, now, fEpisodes, fIdx, items>>
    /\ UNCHANGED <<linkVars, exVars, crawlVars>>

(***************************************************************************)
(* Bounded CSV files                                                       *)
(***************************************************************************)
\* The most data rows in the CSV file.
MaxRows == 3

\* The header save_to_csv writes (line 216), and two files with fewer columns.
FullHeader == <<"title", "date", "audio_url", "page_url">>
Headers    == {FullHeader, <<"title", "date">>, <<"audio_url">>}

d_abbrDot == <<"N","o","v","."," ","2","2",","," ","2","0","1","6">>
d_full    == <<"N","o","v","e","m","b","e","r"," ","2",","," ","2","0","1","6">>
d_abbr    == <<"N","o","v"," ","2","2",","," ","2","0","1","6">>
d_other   == <<"2","2","/","1","1","/","2","0","1","6">>

r_full       == << <<"A">>, d_abbrDot, <<"u">>, <<"p">> >>
r_noAudio    == << <<"B">>, s_Unknown, <<>>, <<"p">> >>
r_artifacts  == << <<"\"","C">>, d_full, <<"u","\"",">">>, <<" ","p">> >>
r_blankAudio == << <<"D">>, <<>>, <<" ">>, <<"p">> >>
r_titleOnly  == << <<"E">> >>
r_noPageUrl  == << <<"F">>, d_abbr, <<"u">> >>
r_badDate    == << <<"G">>, d_other, <<"v">>, <<"q">> >>
r_blankLine  == << >>

CsvRowForms ==
    {r_full, r_noAudio, r_artifacts, r_blankAudio, r_titleOnly, r_noPageUrl,
     r_badDate, r_blankLine}

CsvFiles == [header : Headers, rows : SeqsUpTo(CsvRowForms, MaxRows)]

InitFeed ==
    /\ csvFile \in CsvFiles
    /\ now = 0
    /\ fpc = "start"
    /\ fEpisodes = <<>>
    /\ fIdx = 1
    /\ items = <<>>
    /\ feed = NotWrittenFeed
    /\ IdleLinks /\ IdleExtract /\ IdleCrawl

NextFeed ==
    \/ ReadCsv
    \/ AddItem
    \/ WriteFeed

SpecFeed == InitFeed /\ [][NextFeed]_vars

(***************************************************************************)
(* Properties                                                              *)
(***************************************************************************)
\* The episode-page fetches among recorded calls, in order.
IsPageGet(c) == c.call = "get"
PageGets(tr) == SelectSeq(tr, IsPageGet)

HasDuplicate(links) ==
    \E a, b \in 1..Len(links) : a < b /\ links[a] = links[b]

\* C1: in one invocation of crawl_episodes every distinct episode URL is
\* fetched at most once, whatever the links repeat and whatever the fetches
\* return, and every fetched URL was put into the visited set.
C1_EachUrlFetchedOnce ==
    ~localFile =>
        /\ \A a, b \in 1..Len(PageGets(trace)) :
               a # b => PageGets(trace)[a].url # PageGets(trace)[b].url
        /\ \A a \in 1..Len(PageGets(trace)) : PageGets(trace)[a].url \in visited

\* A crawl that returned after meeting a link it had fetched before: the
\* same resolved URL under two different hrefs, its one fetch a failure.
C1_Witness ==
    /\ ~localFile
    /\ ret.returned
    /\ indexOutcome = "ok"
    /\ HasDuplicate(episode_links)
    /\ \E a, b \in 2..Len(index_html.table.rows) :
          /\ a < b
          /\ index_html.table.rows[a][2].href # index_html.table.rows[b][2].href
          /\ episode_links[a - 1] = episode_links[b - 1]
          /\ pageResp[episode_links[a - 1]].kind # "ok"
          /\ GetPage(episode_links[a - 1]) \in Range(trace)

\* The records the claim expects of a finished crawl: one per first
\* occurrence of a URL whose fetch succeeded and whose page holds a record.
RECURSIVE ExpectedRecords(_, _)
ExpectedRecords(links, k) ==
    IF k > Len(links) THEN <<>>
    ELSE (IF /\ \A j \in 1..(k - 1) : links[j] # links[k]
             /\ pageResp[links[k]].kind = "ok"
             /\ extract_audio_urls(pageResp[links[k]].page, links[k]).some
          THEN <<extract_audio_urls(pageResp[links[k]].page, links[k])>>
          ELSE <<>>)
         \o ExpectedRecords(links, k + 1)

\* C2: when the index fetch succeeds crawl_episodes runs through every
\* discovered link and returns normally; the returned list is, in discovery
\* order, one record per first occurrence of a URL whose fetch succeeded and
\* whose extraction returned a record; a failed or audio-less page neither
\* contributes nor keeps a later link from being fetched.  Inside the loop
\* every link passed so far has been visited, whatever its fetch did.
C2_PartialFailureTolerated ==
    /\ (~localFile /\ pc = "crawl_loop") =>
           /\ idx \in 1..(Len(episode_links) + 1)
           /\ ~ret.returned
           /\ \A k \in 1..(idx - 1) : episode_links[k] \in visited
    /\ (~localFile /\ ret.returned /\ indexOutcome = "ok") =>
           /\ ~ret.raised
           /\ idx = Len(episode_links) + 1
           /\ ret.value = ExpectedRecords(episode_links, 1)
           /\ {c.url : c \in Range(PageGets(trace))} = Range(episode_links)

\* A finished crawl in which a failed fetch and an audio-less page precede,
\* or surround, pages that gave records.
C2_Witness ==
    /\ ~localFile
    /\ ret.returned
    /\ indexOutcome = "ok"
    /\ Len(ret.value) >= 1
    /\ \E a, b \in 1..Len(episode_links) :
          /\ a < b
          /\ pageResp[episode_links[a]].kind \in {"http_error", "transport_error"}
          /\ pageResp[episode_links[b]] = Ok(PageWithAudio)
          /\ ret.value[Len(ret.value)].page_url = episode_links[b]

\* What crawl_episodes returns after a successful index fetch that led to
\* no record.
ZeroRecordSuccess == Returned(<<>>)

\* C3: when the index fetch fails crawl_episodes fetches no episode page
\* and reports zero records together with a failure signal, so that its
\* caller can tell the outcome from a successful crawl without records.
C3_IndexFailureSignalled ==
    (~localFile /\ ret.returned /\ indexOutcome # "ok") =>
        /\ PageGets(trace) = <<>>
        /\ ret.value = <<>>
        /\ ret # ZeroRecordSuccess

\* C4: between any two consecutive episode-page fetches of a crawl the
\* fixed delay is executed, whatever the earlier fetch returned.
C4_DelayBetweenFetches ==
    ~localFile =>
        \A a, b \in 1..Len(trace) :
            (/\ a < b
             /\ IsPageGet(trace[a])
             /\ IsPageGet(trace[b])
             /\ \A m \in (a + 1)..(b - 1) : ~IsPageGet(trace[m]))
            => \E m \in (a + 1)..(b - 1) : trace[m] = Sleep

\* C5: when get_episode_links falls through to its third heuristic, no
\* returned URL comes from a bare same-page anchor and none has an origin
\* other than base_url's, whatever the form of the hrefs in the container.
C5_Option3SameOrigin ==
    (lk_links.done /\ UsesOption3(lk_index, BASE_URL)) =>
        \A k \in 1..Len(lk_links.links) :
            /\ Origin(lk_links.links[k]) = Origin(BASE_URL)
            /\ ~\E h \in Range(Container(lk_index).hrefs) :
                   /\ StartsWith(h, <<"#">>)
                   /\ lk_links.links[k] = urljoin(BASE_URL, h)

\* The first element of a given class (what a ".class" selector stands for).
RECURSIVE FirstOfClass(_, _)
FirstOfClass(page, class) ==
    IF page = <<>> THEN NoTag
    ELSE IF Head(page).class = class THEN Tag(Head(page))
    ELSE FirstOfClass(Tail(page), class)

TextOf(t) == IF t.found THEN get_text(t.tag) ELSE <<>>

\* The title the claim expects: the first non-empty text among the h1, the
\* title element and the episode-title element, else "Unknown".
ClaimedTitle(page) ==
    IF TextOf(find(page, "h1")) # <<>> THEN TextOf(find(page, "h1"))
    ELSE IF TextOf(find(page, "title")) # <<>> THEN TextOf(find(page, "title"))
    ELSE IF TextOf(FirstOfClass(page, "episode-title")) # <<>>
         THEN TextOf(FirstOfClass(page, "episode-title"))
    ELSE s_Unknown

\* C6: the title of an extracted record is the text of the first of h1,
\* title, episode-title element whose text is not empty, and "Unknown" only
\* when none has text.
C6_TitleFirstNonEmpty ==
    (ex_result.done /\ ex_result.rec.some) =>
        ex_result.rec.title = ClaimedTitle(ex_page)

\* The records csv_to_rss reads, in input order.
InputRecords == ReadRows(csvFile.header, csvFile.rows)

FeedEnded == fpc \in {"done", "raised"}

\* Whether an item shows the title, link, enclosure and guid of a record.
ItemIsFrom(item, rec, k) ==
    /\ ~BuildItem(rec, k, 0).raised
    /\ item.title = BuildItem(rec, k, 0).item.title
    /\ item.description = BuildItem(rec, k, 0).item.description
    /\ item.hasLink = BuildItem(rec, k, 0).item.hasLink
    /\ item.link = BuildItem(rec, k, 0).item.link
    /\ item.enclosure = BuildItem(rec, k, 0).item.enclosure
    /\ item.guid = BuildItem(rec, k, 0).item.guid

\* C7: for every input list of n records the written document holds n
\* items and item k is built from input record n+1-k (one reversal, nothing
\* dropped or duplicated); for n = 0 the document is still written.
C7_ReversedOnce ==
    FeedEnded =>
        /\ feed.written
        /\ Len(feed.items) = Len(InputRecords)
        /\ \A k \in 1..Len(feed.items) :
               ItemIsFrom(feed.items[k],
                          InputRecords[Len(InputRecords) + 1 - k], k)

\* The part of C7 the code does keep: a document that is written holds one
\* item per record, in reversed order.
C7_ReversedWhenWritten ==
    feed.written =>
        /\ Len(feed.items) = Len(InputRecords)
        /\ \A k \in 1..Len(feed.items) :
               ItemIsFrom(feed.items[k],
                          InputRecords[Len(InputRecords) + 1 - k], k)

\* The audio_url of a record as the claim reads it: present when the
\* record has a non-empty one.
AudioOf(rec) == Get(rec, "audio_url", None_)

\* C8: an item carries a link, an enclosure and a guid if and only if its
\* record's audio_url is present (non-empty); when present, enclosure url
\* and guid text are the audio_url verbatim, with length "0", type
\* audio/mpeg and isPermaLink "false"; when absent the item has none of the
\* three but still has title, description and pubDate.
C8_EnclosureIffAudio ==
    /\ \A k \in 1..Len(items) :
          /\ items[k].hasPubDate
          /\ items[k].hasLink = Truthy(AudioOf(fEpisodes[k]))
          /\ items[k].hasEnclosure = Truthy(AudioOf(fEpisodes[k]))
          /\ items[k].hasGuid = Truthy(AudioOf(fEpisodes[k]))
          /\ Truthy(AudioOf(fEpisodes[k])) =>
                /\ items[k].enclosure =
                      [url |-> AudioOf(fEpisodes[k]).v, type |-> s_audioMpeg, length |-> <<"0">>]
                /\ items[k].guid =
                      [isPermaLink |-> <<"f","a","l","s","e">>, text |-> AudioOf(fEpisodes[k]).v]
    /\ fpc = "raised" => Truthy(AudioOf(fEpisodes[fIdx]))

\* Whether a date cell is missing, empty, "Unknown" or in no known format.
Unparseable(date) ==
    \/ ~Truthy(date)
    \/ date.v = s_Unknown
    \/ \A f \in 1..Len(DateFormats) : ~Strptime(date.v, DateFormats[f], NoMatch).ok

\* C9: csv_to_rss rejects no record and never aborts on an incomplete one:
\* for every row, also one with fewer cells than the header or with a date
\* that cannot be parsed, an item is emitted with the defaults applied.
C9_NeverRejects ==
    /\ fpc # "raised"
    /\ feed.written =>
          /\ Len(feed.items) = Len(InputRecords)
          /\ \A k \in 1..Len(feed.items) :
                /\ feed.items[k].hasPubDate
                /\ feed.items[k].description = feed.items[k].title
                /\ Unparseable(Get(fEpisodes[k], "date", None_)) => feed.items[k].pubDate.clock

\* C10: for the same index markup and page responses the local-index-file
\* path of main performs the same page fetches and produces the same
\* records as crawl_episodes does on the network path.
C10_PathsEquivalent ==
    (runs.net.done /\ runs.local.done /\ indexOutcome = "ok") =>
        /\ PageGets(runs.net.trace) = PageGets(runs.local.trace)
        /\ runs.net.episodes = runs.local.episodes

====
